---- MODULE Spec2Model ----
(***************************************************************************)
(* halfpike: the tokenizer (lexer.run / untilSpace), the bounded item      *)
(* channel, the line-buffering Parser (Next, Backup, Peek, FindStart,       *)
(* FindUntil, FindREStart) and the                                         *)
(* step-function driver (Parse).                                           *)
(*                                                                         *)
(* Strings are sequences of one-character strings.  The tokenizer's only   *)
(* interaction with the rest of the program is lexer.addItemsChannel, so   *)
(* the sequence of items it hands to addItemsChannel is computed by the    *)
(* operator UntilSpace and the tokenizer goroutine is the process that     *)
(* sends them one by one.                                                  *)
(***************************************************************************)
EXTENDS Integers, Sequences, FiniteSets, TLC

\* ------------------------------------------------------------------ bounds
\* Longest input string enumerated character by character.
MaxLen == 4
\* Longest run of consecutive Next() results remembered in fwd.
MaxRun == 4
\* Longest input string enumerated for a Parse call.
MaxParseLen == 2
\* Most step functions one Parse call invokes.
MaxSteps == 3
\* Most Errorf calls of one Parse call.
MaxErrs == 2
\* Longest input string enumerated for the tokenizer over LexAlphabet.
MaxLexLen == 4
\* Longest line enumerated character by character for line.New and Decode.
MaxListLen == 4
\* Most entries of a written list handed to Decode.
MaxEntries == 2
\* Longest line enumerated over NumAlphabet for line.New.
MaxNumLen == 4
\* Longest line enumerated for the calls on a Lexer.
MaxLineLen == 4

\* --------------------------------------------------------------- constants
\* Capacity of lexer.items: make(chan Item, 10).
ChanCap == 10

\* ItemType values (iota).
ItemUnknown == 0
ItemEOF == 1
ItemText == 2
ItemInt == 3
ItemFloat == 4
ItemEOL == 5
itemSpace == 6

\* Characters.  SOH is U+0001, the rune whose value is rune(ItemEOF).
NL == "\n"
SP == " "
SOH == "^A"
Digits == {"0", "1", "2", "3", "4", "5", "6", "7", "8", "9"}

\* rune(ItemEOF): what lexer.next returns at the end of the input.
EOFRune == SOH

\* unicode.IsSpace restricted to the characters of the model.
IsSpace(r) == r \in {SP, NL, "\t", "\r"}

\* Skip, the pattern atom that matches any item.
Skip == <<"$", ".", "<", "s", "k", "i", "p", ">", ".", "$">>

\* ------------------------------------------------------------ pure helpers
\* s[i:j] of Go: the characters at 0-based positions i .. j-1.
Slice(s, i, j) == SubSeq(s, i + 1, j)

AllDigits(s) == Len(s) > 0 /\ \A i \in 1..Len(s) : s[i] \in Digits

\* strconv.Atoi(s) succeeds (inputs here are far shorter than 19 digits).
isInt(s) ==
    /\ Len(s) > 0
    /\ IF s[1] \in {"+", "-"} THEN AllDigits(Tail(s)) ELSE AllDigits(s)

\* strconv.ParseFloat(s, 64) succeeds, for strings over digits, sign and '.':
\* optional sign, digits with at most one '.', at least one digit.
isFloat(s) ==
    LET body == IF Len(s) > 0 /\ s[1] \in {"+", "-"} THEN Tail(s) ELSE s
        dots == {i \in 1..Len(body) : body[i] = "."}
    IN  /\ \A i \in 1..Len(body) : body[i] \in Digits \cup {"."}
        /\ Cardinality(dots) <= 1
        /\ \E i \in 1..Len(body) : body[i] \in Digits

\* An Item as lexer.emit builds it.
Item(t, v, n, r) == [Type |-> t, Val |-> v, lineNum |-> n, raw |-> r]

\* The zero Line.
ZeroLine == [Items |-> <<>>, LineNum |-> 0, Raw |-> <<>>]

\* lexer.current(): the pending text input[start:pos].
current(in, start, pos) ==
    IF start >= Len(in) \/ start = pos THEN <<>> ELSE Slice(in, start, pos)

\* The classification switch of untilSpace: the items emitted for the
\* pending text input[start:pos] before a newline (atNL) or a space.
Classify(in, start, pos, last, atNL) ==
    LET cur == current(in, start, pos)
    IN  IF isInt(cur) THEN <<Item(ItemInt, Slice(in, start, pos), 0, <<>>)>>
        ELSE IF isFloat(cur) THEN <<Item(ItemFloat, Slice(in, start, pos), 0, <<>>)>>
        ELSE IF atNL /\ last = itemSpace THEN <<>>
        ELSE <<Item(ItemText, Slice(in, start, pos), 0, <<>>)>>

\* The inner switch of the newline case of untilSpace, "case ItemUnknown,
\* ItemEOL": nothing but whitespace has been read on this line.
blankLineAtStartOnly(last) == last = ItemUnknown

blankLine(last) == last \in {ItemUnknown, ItemEOL}

\* untilSpace from the state (pos, start, last, lineNum, raw), out being the
\* items handed to addItemsChannel so far.  pos is the position before the
\* l.next() that opens the loop iteration.
RECURSIVE UntilSpaceFrom(_, _, _, _, _, _, _)
UntilSpaceFrom(in, pos, start, last, lineNum, raw, out) ==
    LET atEnd == pos >= Len(in)
        r     == IF atEnd THEN EOFRune ELSE in[pos + 1]
        p1    == IF atEnd THEN pos ELSE pos + 1
        raw1  == Append(raw, r)
    IN  IF r = NL THEN
            IF blankLine(last)
            THEN \* blank line: ignore(), lineNum++, continue
                 UntilSpaceFrom(in, p1, p1, last, lineNum + 1, raw1, out)
            ELSE LET b   == p1 - 1
                     cl  == Classify(in, start, b, last, TRUE)
                     st  == IF cl = <<>> THEN start ELSE b
                     eol == Item(ItemEOL, Slice(in, st, p1), lineNum, raw1)
                 IN  UntilSpaceFrom(in, p1, p1, ItemEOL, lineNum + 1, <<>>,
                                    out \o cl \o <<eol>>)
        ELSE IF r = EOFRune THEN
            Append(out, Item(ItemEOF, Slice(in, start, p1), lineNum, raw1))
        ELSE IF IsSpace(r) THEN
            IF last \in {ItemUnknown, ItemEOL, itemSpace}
            THEN UntilSpaceFrom(in, p1, p1, last, lineNum, raw1, out)
            ELSE LET b  == p1 - 1
                     cl == Classify(in, start, b, last, FALSE)
                 IN  UntilSpaceFrom(in, p1, p1, itemSpace, lineNum, raw1, out \o cl)
        ELSE UntilSpaceFrom(in, p1, start, ItemText, lineNum, raw1, out)

\* The items the tokenizer goroutine hands to addItemsChannel, in order.
UntilSpace(in) == UntilSpaceFrom(in, 0, 0, ItemUnknown, 0, <<>>, <<>>)

\* lexer.next() from position pos on, as untilSpace calls it: the value of
\* l.pos when the call returns rune(ItemEOF), which is when untilSpace takes
\* its case r == rune(ItemEOF), emits ItemEOF and returns nil.
RECURSIVE scanEnd(_, _)
scanEnd(in, pos) ==
    LET atEnd == pos >= Len(in)
        r     == IF atEnd THEN EOFRune ELSE in[pos + 1]
        p1    == IF atEnd THEN pos ELSE pos + 1
    IN  IF r = EOFRune THEN p1 ELSE scanEnd(in, p1)

\* ------------------------------------------------------------- Parser helpers
\* Error values: nil, the error made by the k-th call of Parser.Errorf, the
\* error Validate returns, and "not set" for what has not happened yet.
NoErr == <<"nil", 0>>
ErrorfErr(k) == <<"Errorf", k>>
ValidateErr == <<"Validate", 0>>
NotSet == <<"none", 0>>

\* Parser.EOF(line): the last item is an ItemEOF.  It indexes Items[len-1], so it
\* panics on a Line without items (EOFPanics).
EOFPanics(line) == Len(line.Items) = 0
EOF(line) == line.Items[Len(line.Items)].Type = ItemEOF

IsAtStartSkipAnywhere(line, find) ==
    \A i \in 1..Len(find) :
        find[i] = Skip \/ (i <= Len(line.Items) /\ line.Items[i].Val = find[i])

\* Parser.IsAtStart(line, find).
IsAtStart(line, find) ==
    IF Len(find) = 0 THEN TRUE
    ELSE IF Len(line.Items) < Len(find) THEN FALSE
    ELSE \A i \in 1..Len(find) : find[i] = Skip \/ line.Items[i].Val = find[i]

\* regexp.MatchString for the patterns used here: "a" (an 'a' anywhere) and
\* "^aa" (the text starts with "aa"), written like every string as sequences
\* of characters.
MatchString(re, s) ==
    IF re = <<"a">> THEN \E i \in 1..Len(s) : s[i] = "a"
    ELSE Len(s) >= 2 /\ s[1] = "a" /\ s[2] = "a"

\* Parser.IsREStart(line, find).
IsREStart(line, find) ==
    IF Len(find) = 0 THEN FALSE
    ELSE IF Len(line.Items) < Len(find) THEN FALSE
    ELSE \A i \in 1..Len(find) : MatchString(find[i], line.Items[i].Val)

\* What one Parser call hands back: the call, how it ended ("ok", "err",
\* "until", "panic") and the Line it returned.
Ret(o, st, line) == [op |-> o, st |-> st, line |-> line]
NoRet == Ret("none", "none", ZeroLine)

\* The outcome of running a call as far as it goes without the channel:
\* st is "done", "pull" (blocked in Parser.pull) or "panic".
Out(st, p, r) == [st |-> st, pos |-> p, ret |-> r]

\* Parser.Next up to the point where it returns or calls pull(): kind "ret"
\* (returns line, cursor becomes pos), "pull" (cursor becomes pos once the
\* pulled Line is appended) or "panic" (EOF on a Line without items).
NextStepAdvancing(ls, p) ==
    IF Len(ls) = 0 THEN [kind |-> "pull", pos |-> 1, line |-> ZeroLine]
    ELSE IF p >= Len(ls) /\ EOFPanics(ls[Len(ls)])
        THEN [kind |-> "panic", pos |-> p, line |-> ZeroLine]
    ELSE IF p >= Len(ls) /\ EOF(ls[Len(ls)])
        THEN [kind |-> "ret", pos |-> p + 1, line |-> ls[Len(ls)]]
    ELSE IF p >= Len(ls) THEN [kind |-> "pull", pos |-> p + 1, line |-> ZeroLine]
    ELSE [kind |-> "ret", pos |-> p + 1, line |-> ls[p + 1]]

NextStepNoEOFCheck(ls, p) ==
    IF Len(ls) = 0 THEN [kind |-> "pull", pos |-> 1, line |-> ZeroLine]
    ELSE IF p >= Len(ls) THEN [kind |-> "pull", pos |-> p + 1, line |-> ZeroLine]
    ELSE [kind |-> "ret", pos |-> p + 1, line |-> ls[p + 1]]

NextStep(ls, p) ==
    IF Len(ls) = 0 THEN [kind |-> "pull", pos |-> 1, line |-> ZeroLine]
    ELSE IF p >= Len(ls) /\ EOFPanics(ls[Len(ls)])
        THEN [kind |-> "panic", pos |-> p, line |-> ZeroLine]
    ELSE IF p >= Len(ls) /\ EOF(ls[Len(ls)])
        THEN [kind |-> "ret", pos |-> p, line |-> ls[Len(ls)]]
    ELSE IF p >= Len(ls) THEN [kind |-> "pull", pos |-> p + 1, line |-> ZeroLine]
    ELSE [kind |-> "ret", pos |-> p + 1, line |-> ls[p + 1]]

\* Parser.Backup at cursor p: the cursor after p.pos-- and whether it panics.
BackupStepClamping(ls, p) ==
    IF p - 1 < 0
    THEN [panic |-> FALSE, pos |-> 0, line |-> IF Len(ls) = 0 THEN ZeroLine ELSE ls[1]]
    ELSE [panic |-> FALSE, pos |-> p - 1, line |-> ls[p]]

BackupStep(ls, p) ==
    IF p - 1 < 0 THEN [panic |-> TRUE, pos |-> p - 1, line |-> ZeroLine]
    ELSE [panic |-> FALSE, pos |-> p - 1, line |-> ls[p]]

\* The body of the loop of FindStart on the Line its p.Next() returned:
\* "ok" (return line, nil), "err" (return Line{}, error), "loop" (call
\* p.Next() again) or "panic" (p.EOF on a Line without items).
findStartCaseFirstLineOnly(line, find) ==
    IF IsAtStart(line, find) THEN "ok"
    ELSE IF EOFPanics(line) THEN "panic"
    ELSE "err"

findStartCase(line, find) ==
    IF IsAtStart(line, find) THEN "ok"
    ELSE IF EOFPanics(line) THEN "panic"
    ELSE IF EOF(line) THEN "err"
    ELSE "loop"

\* The body of the loop of FindUntil on the Line its p.Next() returned: "ok"
\* (return line, false, nil), "until" (p.Backup(); return Line{}, true, nil),
\* "err" (return Line{}, false, error), "loop" or "panic".
findUntilCaseEOFFirst(line, find, until) ==
    IF IsAtStart(line, find) THEN "ok"
    ELSE IF EOFPanics(line) THEN "panic"
    ELSE IF EOF(line) THEN "err"
    ELSE IF IsAtStart(line, until) THEN "until"
    ELSE "loop"

\* A mutant of findUntilCase: until is tested before find.
findUntilCaseUntilFirst(line, find, until) ==
    IF IsAtStart(line, until) THEN "until"
    ELSE IF IsAtStart(line, find) THEN "ok"
    ELSE IF EOFPanics(line) THEN "panic"
    ELSE IF EOF(line) THEN "err"
    ELSE "loop"

findUntilCase(line, find, until) ==
    IF IsAtStart(line, find) THEN "ok"
    ELSE IF IsAtStart(line, until) THEN "until"
    ELSE IF EOFPanics(line) THEN "panic"
    ELSE IF EOF(line) THEN "err"
    ELSE "loop"

\* The p.Backup() of FindUntil's until case.
findUntilNoBackup(ls, p) == [panic |-> FALSE, pos |-> p, line |-> ZeroLine]

findUntilBackup(ls, p) == BackupStep(ls, p)

\* A call in progress: its name and arguments.
Call(name, find, until) == [name |-> name, find |-> find, until |-> until]
NoCall == Call("none", <<>>, <<>>)

\* After(o, ls, p, line): the rest of call o once its p.Next() has returned
\* line, the buffer being ls and the cursor p.  Loop(o, ls, p): call o at the
\* point where it calls p.Next().
RECURSIVE After(_, _, _, _), Loop(_, _, _)
After(o, ls, p, line) ==
    LET b == BackupStep(ls, p)
    IN
    IF o.name = "Next" THEN Out("done", p, Ret("Next", "ok", line))
    ELSE IF o.name = "Peek" THEN
        IF b.panic THEN Out("panic", b.pos, Ret("Peek", "panic", ZeroLine))
        ELSE Out("done", b.pos, Ret("Peek", "ok", line))
    ELSE IF o.name = "FindStart" THEN
        LET c == findStartCase(line, o.find)
        IN  IF c = "ok" THEN Out("done", p, Ret(o.name, "ok", line))
            ELSE IF c = "panic" THEN Out("panic", p, Ret(o.name, "panic", ZeroLine))
            ELSE IF c = "err" THEN Out("done", p, Ret(o.name, "err", ZeroLine))
            ELSE Loop(o, ls, p)
    ELSE IF o.name = "FindUntil" THEN
        LET c  == findUntilCase(line, o.find, o.until)
            ub == findUntilBackup(ls, p)
        IN  IF c = "ok" THEN Out("done", p, Ret(o.name, "ok", line))
            ELSE IF c = "until" THEN
                IF ub.panic THEN Out("panic", ub.pos, Ret(o.name, "panic", ZeroLine))
                ELSE Out("done", ub.pos, Ret(o.name, "until", ZeroLine))
            ELSE IF c = "panic" THEN Out("panic", p, Ret(o.name, "panic", ZeroLine))
            ELSE IF c = "err" THEN Out("done", p, Ret(o.name, "err", ZeroLine))
            ELSE Loop(o, ls, p)
    ELSE \* FindREStart
        IF IsREStart(line, o.find) THEN Out("done", p, Ret(o.name, "ok", line))
        ELSE IF EOFPanics(line) THEN Out("panic", p, Ret(o.name, "panic", ZeroLine))
        ELSE IF EOF(line) THEN Out("done", p, Ret(o.name, "err", ZeroLine))
        ELSE Loop(o, ls, p)

Loop(o, ls, p) ==
    LET n == NextStep(ls, p)
    IN  IF n.kind = "pull" THEN Out("pull", p, NoRet)
        ELSE IF n.kind = "panic" THEN Out("panic", p, Ret(o.name, "panic", ZeroLine))
        ELSE After(o, ls, n.pos, n.line)

\* ------------------------------------------------------------------- inputs
Alphabet == {"a", SP, NL}

\* Every string over Alphabet of at most n characters.
Strings(n) == UNION {[1..k -> Alphabet] : k \in 0..n}

RECURSIVE Repeat(_, _)
Repeat(s, n) == IF n = 0 THEN <<>> ELSE s \o Repeat(s, n - 1)

\* An input whose items do not fit in the channel: one line of ChanCap + 1
\* words, that is ChanCap + 1 ItemText, an ItemEOL and the ItemEOF.
LongInput == Repeat(<<"a", SP>>, ChanCap) \o <<"a", NL>>

\* Two-line inputs for the Find calls: "aa\na\n" and "a\naa\n".
FindInputs == {<<"a", "a", NL, "a", NL>>, <<"a", NL, "a", "a", NL>>}

Inputs == Strings(MaxLen) \cup {LongInput} \cup FindInputs
ParseInputs == Strings(MaxParseLen) \cup {LongInput}

\* Inputs of the tokenizer with words, integers, floats, spaces and newlines.
LexAlphabet == {"a", "1", ".", SP, NL}
LexInputs == UNION {[1..k -> LexAlphabet] : k \in 0..MaxLexLen}

\* Patterns handed to FindStart / FindUntil and to FindREStart.
Finds == {<<>>, <<<<"a">>>>, <<<<"a", "a">>>>, <<Skip, Skip>>}
REFinds == {<<>>, <<<<"a">>>>, <<<<"^", "a", "a">>>>}
\* Patterns handed to FindUntil as until.
Untils == {<<>>, <<<<"a">>>>}

\* What Validate may return.
ValidateErrs == {NoErr, ValidateErr}

\* ------------------------------------------------------------ package line
\* line.ItemSpace: a space character as recognized by unicode.IsSpace().
ItemSpace == 6

DQ == "\""
SQ == "'"
BS == "\\"

\* The zero rune: the value of escape, last and lastNonSpace before they are
\* set.
NoRune == ""

\* line.Item{Type, Val}.
LineItem(t, v) == [Type |-> t, Val |-> v]
NoItem == LineItem(ItemUnknown, <<>>)

\* A *Lexer: index and items; NilLexer before New has returned one.
NilLexer == [index |-> 0, items |-> <<>>]

\* New: the item made of buff when a space or the end of the line is met;
\* isNum and isFlt are the locals isNumber and isFloat.
buffItem(buff, isNum, isFlt) ==
    IF isNum /\ isFlt THEN LineItem(ItemFloat, buff)
    ELSE IF isNum THEN LineItem(ItemInt, buff)
    ELSE LineItem(ItemText, buff)

\* A mutant of spaceItem: every space character is emitted as " ".
spaceItemBlank(r) == LineItem(IF r = NL THEN ItemEOL ELSE ItemSpace, <<SP>>)

\* New: the item appended for a space character r.
spaceItem(r) == LineItem(IF r = NL THEN ItemEOL ELSE ItemSpace, <<r>>)

\* New: the loop over the runes of line, from rune i on, then the flush of
\* buff after the loop.
RECURSIVE newLoop(_, _, _, _, _, _)
newLoop(ln, i, items, buff, isNum, isFlt) ==
    IF i > Len(ln)
    THEN IF Len(buff) > 0 THEN Append(items, buffItem(buff, isNum, isFlt))
         ELSE items
    ELSE LET r == ln[i] IN
         IF IsSpace(r)
         THEN LET flushed == IF Len(buff) > 0
                             THEN Append(items, buffItem(buff, isNum, isFlt))
                             ELSE items
              IN  newLoop(ln, i + 1, Append(flushed, spaceItem(r)), <<>>,
                          IF Len(buff) > 0 THEN FALSE ELSE isNum,
                          IF Len(buff) > 0 THEN FALSE ELSE isFlt)
         ELSE IF r \in Digits
         THEN newLoop(ln, i + 1, items, Append(buff, r),
                      IF Len(buff) = 0 THEN TRUE ELSE isNum, isFlt)
         ELSE IF r = "."
         THEN newLoop(ln, i + 1, items, Append(buff, r), isNum,
                      IF isNum THEN TRUE ELSE isFlt)
         ELSE newLoop(ln, i + 1, items, Append(buff, r),
                      /\ \/ Len(items) = 0
                         \/ items[Len(items)].Type = ItemSpace /\ Len(buff) = 0
                      /\ r = "-",
                      FALSE)

\* New: whether items[len(items)-1] indexes an empty slice, which panics.
newPanics(items) == items = <<>>

\* New: the ItemEOF appended unless the last item is an ItemEOL.
newTerminal(items) ==
    IF items[Len(items)].Type # ItemEOL
    THEN Append(items, LineItem(ItemEOF, <<>>))
    ELSE items

\* ItemJoin(items...): the Val of the items, joined.
RECURSIVE ItemJoin(_)
ItemJoin(items) ==
    IF items = <<>> THEN <<>> ELSE Head(items).Val \o ItemJoin(Tail(items))

\* Lexer.Next(): the item returned and the Lexer afterwards.
lexerNext(lx) ==
    IF lx.index < Len(lx.items)
    THEN [item |-> lx.items[lx.index + 1],
          l |-> IF lx.items[lx.index + 1].Type # ItemEOL
                THEN [lx EXCEPT !.index = @ + 1] ELSE lx]
    ELSE [item |-> lx.items[Len(lx.items)], l |-> lx]

\* Lexer.Backup().
lexerBackup(lx) == IF lx.index - 1 >= 0 THEN [lx EXCEPT !.index = @ - 1] ELSE lx

\* Lexer.Peek(): the item returned and the Lexer afterwards.
lexerPeek(lx) == [item |-> lexerNext(lx).item, l |-> lexerBackup(lexerNext(lx).l)]

\* SkipAllSpaces(l): the loop, which calls l.Next() until the item is not an
\* ItemSpace, then the l.Backup().
RECURSIVE skipLoop(_)
skipLoop(lx) ==
    IF lexerNext(lx).item.Type = ItemSpace THEN skipLoop(lexerNext(lx).l)
    ELSE lexerNext(lx).l
skipAllSpaces(lx) == lexerBackup(skipLoop(lx))

\* The 1-based position in items of the item l.Next() returns.
NextAt(lx) == IF lx.index < Len(lx.items) THEN lx.index + 1 ELSE Len(lx.items)

\* A mutant of rangeStops: the goroutine also returns after a Space item.
rangeStopsAtSpace(item) == item.Type \in {ItemEOL, ItemEOF, ItemSpace}

\* Range: the goroutine returns once it has sent item.
rangeStops(item) == item.Type \in {ItemEOL, ItemEOF}

\* The errors of DecodeList, numbered in the order of the source.
DecodeErr(k) == <<"Decode", k>>

\* The exported fields of a DecodeList; ZeroDecodeList is its zero value.
DecodeListOf(lc, rc, sep, q, esc) ==
    [LeftConstraint |-> lc, RightConstraint |-> rc, Separator |-> sep,
     EntryQuote |-> q, EscapeCharacter |-> esc]
ZeroDecodeList == DecodeListOf(<<>>, <<>>, <<>>, <<>>, <<>>)

\* []rune(s)[0]; Decode takes it only of fields setup has found non-empty,
\* and of EscapeCharacter when it is not "".
FirstRune(s) == IF s = <<>> THEN NoRune ELSE s[1]

\* DecodeList.setup(): the error it returns (d.results = nil is the start of
\* decodeState).
setup(dl) ==
    IF dl.LeftConstraint = <<>> THEN DecodeErr(1)
    ELSE IF dl.RightConstraint = <<>> THEN DecodeErr(2)
    ELSE IF Len(dl.Separator) # 1 THEN DecodeErr(3)
    ELSE IF IsSpace(dl.Separator[1]) THEN DecodeErr(4)
    ELSE IF dl.EntryQuote = <<>> THEN DecodeErr(5)
    ELSE IF dl.EntryQuote # <<DQ>> /\ dl.EntryQuote # <<SQ>> THEN DecodeErr(5)
    ELSE NoErr

\* Decode: its local variables, and d.results, before the loop.
decodeState ==
    [foundLeftConstraint |-> FALSE, foundRightConstraint |-> FALSE,
     inQuote |-> FALSE, entry |-> <<>>, read |-> 0, last |-> NoRune,
     lastNonSpace |-> NoRune, results |-> <<>>]

\* A mutant of sepAccepted: the separator must directly follow the quote.
sepAcceptedAfterQuoteOnly(s, q) == s.last = q

\* Decode, case r == sep outside a quote: whether the separator is accepted.
sepAccepted(s, q) ==
    \/ s.lastNonSpace = q
    \/ IsSpace(s.last) /\ s.lastNonSpace = q

\* Decode: the closure run for one rune r of an item; more tells whether
\* reader.Len() > 0 once r is read.  The result is the state afterwards,
\* the deferred update of last and lastNonSpace included, and the error.
decodeRune(dl, s0, r, more) ==
    LET lc == FirstRune(dl.LeftConstraint)
        rc == FirstRune(dl.RightConstraint)
        sep == FirstRune(dl.Separator)
        q == FirstRune(dl.EntryQuote)
        escape == FirstRune(dl.EscapeCharacter)
        s == [s0 EXCEPT !.read = @ + 1]
        deferred(t) == [t EXCEPT !.last = r,
                                 !.lastNonSpace = IF ~IsSpace(r) THEN r ELSE @]
        ok(t) == [s |-> deferred(t), err |-> NoErr]
        fail(k) == [s |-> deferred(s), err |-> DecodeErr(k)]
        write == ok([s EXCEPT !.entry = Append(@, r)])
    IN  IF s.read = 2 /\ ~s.foundLeftConstraint THEN fail(7)
        ELSE IF r = lc
        THEN IF s.foundLeftConstraint /\ ~s.inQuote THEN fail(8)
             ELSE IF s.inQuote THEN write
             ELSE ok([s EXCEPT !.foundLeftConstraint = TRUE])
        ELSE IF IsSpace(r)
        THEN IF s.inQuote THEN write ELSE ok(s)
        ELSE IF r = q
        THEN IF escape # NoRune /\ s.last = escape THEN write
             ELSE IF s.inQuote
             THEN ok([s EXCEPT !.results = Append(@, s.entry),
                               !.entry = <<>>, !.inQuote = FALSE])
             ELSE ok([s EXCEPT !.inQuote = TRUE])
        ELSE IF r = sep
        THEN IF s.inQuote THEN write
             ELSE IF sepAccepted(s, q) THEN ok(s)
             ELSE fail(9)
        ELSE IF r = rc
        THEN IF s.read = 1 THEN fail(10)
             ELSE IF s.inQuote THEN write
             ELSE IF more THEN fail(11)
             ELSE ok([s EXCEPT !.foundRightConstraint = TRUE])
        ELSE write

\* Decode: the loop "for reader.Len() > 0" over the runes of val from rune j
\* on; it stops at the first error.
RECURSIVE decodeItem(_, _, _, _)
decodeItem(dl, s, val, j) ==
    IF j > Len(val) THEN [s |-> s, err |-> NoErr]
    ELSE LET t == decodeRune(dl, s, val[j], j < Len(val))
         IN  IF t.err # NoErr THEN t ELSE decodeItem(dl, t.s, val, j + 1)

\* What Decode returns, and the Lexer it leaves.
DecodeRet(items, e, lx) == [items |-> items, err |-> e, l |-> lx]

\* A mutant of errItems: the entries decoded so far are returned with the
\* error.
errItemsPartial(results) == results

\* Decode: the items of "return nil, err".
errItems(results) == <<>>

\* A mutant of doneLexer: foundRightConstraint is tested after l.Next().
doneLexerAfterNext(lx) == lexerNext(lx).l

\* Decode: the Lexer when foundRightConstraint is tested, at the top of the
\* loop, before l.Next().
doneLexer(lx) == lx

\* Decode: the outer loop.
RECURSIVE decodeLoop(_, _, _)
decodeLoop(dl, s, lx) ==
    IF s.foundRightConstraint THEN DecodeRet(s.results, NoErr, doneLexer(lx))
    ELSE LET n == lexerNext(lx) IN
         IF n.item.Type \in {ItemEOF, ItemEOL}
         THEN DecodeRet(errItems(s.results), DecodeErr(6), n.l)
         ELSE LET t == decodeItem(dl, s, n.item.Val, 1)
              IN  IF t.err # NoErr
                  THEN DecodeRet(errItems(t.s.results), t.err, n.l)
                  ELSE decodeLoop(dl, t.s, n.l)

\* A mutant of decode: the first item is read before setup is called.
decodeReadsFirst(dl, lx) ==
    IF setup(dl) # NoErr THEN DecodeRet(<<>>, setup(dl), lexerNext(lx).l)
    ELSE decodeLoop(dl, decodeState, lx)

\* DecodeList.Decode(l).
decode(dl, lx) ==
    IF setup(dl) # NoErr THEN DecodeRet(<<>>, setup(dl), lx)
    ELSE decodeLoop(dl, decodeState, lx)

\* What rng holds while no Range goroutine exists.
NoRange == [state |-> "off", item |-> NoItem, at |-> 0, from |-> 0,
            sent |-> <<>>, ctxDone |-> FALSE, how |-> "none"]

\* What dret holds before Decode has been called.
NoDecode == [items |-> <<>>, err |-> NoErr, from |-> 0, called |-> FALSE]

\* ------------------------------------------------- inputs of package line
\* baseDL of TestDecodeList, and the same with an escape character.
baseDL == DecodeListOf(<<"[">>, <<"]">>, <<",">>, <<DQ>>, <<>>)
escDL == DecodeListOf(<<"[">>, <<"]">>, <<",">>, <<DQ>>, <<BS>>)

\* DecodeLists setup rejects: the four of TestDecodeList, and a Separator of
\* two characters, a space Separator and an EntryQuote that is no quote.
BadDLs ==
    {[baseDL EXCEPT !.LeftConstraint = <<>>],
     [baseDL EXCEPT !.RightConstraint = <<>>],
     [baseDL EXCEPT !.Separator = <<>>],
     [baseDL EXCEPT !.Separator = <<",", ",">>],
     [baseDL EXCEPT !.Separator = <<SP>>],
     [baseDL EXCEPT !.EntryQuote = <<>>],
     [baseDL EXCEPT !.EntryQuote = <<"a">>]}

\* Where a written list may hold a space.
Spots == {"afterLeft", "beforeSep", "afterSep", "beforeRight"}
Space(sp, spot) == IF spot \in sp THEN <<SP>> ELSE <<>>

\* The entries from the k-th on, each in the quote q, with the separator of
\* dl and the spaces of sp between them.
RECURSIVE WriteEntries(_, _, _, _, _)
WriteEntries(dl, q, entries, sp, k) ==
    IF k > Len(entries) THEN <<>>
    ELSE <<q>> \o entries[k] \o <<q>>
         \o (IF k < Len(entries)
             THEN Space(sp, "beforeSep") \o dl.Separator \o Space(sp, "afterSep")
             ELSE <<>>)
         \o WriteEntries(dl, q, entries, sp, k + 1)

\* A list as TestDecodeList writes them: the left delimiter, the entries,
\* a trailing separator after the last entry if trail, the right delimiter.
WriteList(dl, q, entries, sp, trail) ==
    dl.LeftConstraint \o Space(sp, "afterLeft")
    \o WriteEntries(dl, q, entries, sp, 1)
    \o (IF trail /\ entries # <<>>
        THEN Space(sp, "beforeSep") \o dl.Separator ELSE <<>>)
    \o Space(sp, "beforeRight") \o dl.RightConstraint

\* How a line is written: as it stands (kind "raw", the line is pre), or as
\* pre, a written list and suf (kind "list").
Form(kind, pre, q, entries, sp, trail, suf) ==
    [kind |-> kind, pre |-> pre, q |-> q, entries |-> entries, sp |-> sp,
     trail |-> trail, suf |-> suf]
Raw(s) == Form("raw", s, DQ, <<>>, {}, FALSE, <<>>)
NoForm == Raw(<<>>)
LineOf(f) ==
    IF f.kind = "raw" THEN f.pre
    ELSE f.pre \o WriteList(baseDL, f.q, f.entries, f.sp, f.trail) \o f.suf

\* Entries without quote, escape or newline character: a word, two words
\* with the right delimiter, the separator and the left delimiter, nothing.
EntryTexts == {<<"a">>, <<"b", SP, "]">>, <<",", "[">>, <<>>}
EntrySeqs(texts, n) == UNION {[1..k -> texts] : k \in 0..n}

\* Entries holding an escaped quote.
EscEntryTexts == {<<"a">>, <<"a", BS, DQ, "b">>, <<BS, DQ>>}

ListAlphabet == {"[", "]", DQ, ",", SP, NL, "a"}
EscAlphabet == {"]", DQ, ",", BS, "a"}

\* Every line of at most MaxListLen characters of ListAlphabet.
RawForms == {Raw(s) : s \in UNION {[1..k -> ListAlphabet] : k \in 0..MaxListLen}}

\* The left delimiter and at most MaxListLen characters of EscAlphabet.
EscRawForms ==
    {Raw(<<"[">> \o s) : s \in UNION {[1..k -> EscAlphabet] : k \in 0..MaxListLen}}

\* Lines that exercise the number rules of New.
NumberForms ==
    {Raw(s) : s \in {<<"1">>, <<"-", "1">>, <<"1", ".", "5">>, <<"a", "1">>,
                     <<"a", SP, "-", "1", ".", "5", NL>>}}

\* Written lists of at most MaxEntries entries, with every choice of spaces.
ListForms ==
    {Form("list", <<>>, DQ, e, sp, trail, <<>>) :
        e \in EntrySeqs(EntryTexts, MaxEntries), sp \in SUBSET Spots,
        trail \in BOOLEAN}

\* Written lists with something before them or after them on the line.
Prefixes == {<<SP>>, <<SP, SP>>, <<"a">>, <<"a", SP>>, <<",">>, <<DQ>>}
Suffixes == {<<SP, "a">>, <<NL>>, <<"a">>, <<SP, "a", NL>>, <<SP, SP>>}
AroundForms ==
    {Form("list", pre, DQ, e, sp, FALSE, suf) :
        pre \in Prefixes \cup {<<>>}, e \in EntrySeqs({<<"a">>}, MaxEntries),
        sp \in {{}, Spots}, suf \in Suffixes \cup {<<>>}}

\* Lists written with the single quote, as in TestDecodeList, and lists
\* whose entries hold escaped quotes.
SingleQuoteForms ==
    {Form("list", <<>>, SQ, e, sp, trail, <<>>) :
        e \in EntrySeqs({<<"a">>}, MaxEntries), sp \in {{}, Spots},
        trail \in BOOLEAN}
EscForms ==
    {Form("list", <<>>, DQ, e, sp, FALSE, <<>>) :
        e \in EntrySeqs(EscEntryTexts, MaxEntries), sp \in {{}, Spots}}

\* Every line of at most MaxNumLen characters among a digit, the minus
\* sign, the dot, a letter, the space, the tab and the newline, as the lines
\* of TestLexer are made of.
NumAlphabet == {"1", "-", ".", "a", SP, "\t", NL}
NumLines == UNION {[1..k -> NumAlphabet] : k \in 0..MaxNumLen}

\* The lines and the DecodeLists decoded together.
LineInputs ==
    ((RawForms \cup NumberForms \cup ListForms \cup AroundForms
        \cup SingleQuoteForms) \X {baseDL})
    \cup ((EscForms \cup EscRawForms) \X {escDL})
    \cup ({Form("list", <<>>, DQ, e, {"afterLeft", "afterSep", "beforeRight"},
                FALSE, <<>>) : e \in EntrySeqs({<<"a">>}, MaxEntries)}
          \X BadDLs)

\* -------------------------------------------------------------------- state
VARIABLES
    input,      \* lexer.input
    todo,       \* the items of UntilSpace(input) run() has yet to pass to addItemsChannel
    closed,     \* close(l.items) has happened: run() has returned
    queue,      \* the buffered channel lexer.items / Parser.recv
    lines,      \* Parser.lines
    pos,        \* Parser.pos
    err,        \* Parser.err
    cancelled,  \* Parser.cancel has been called
    cstate,     \* the consumer: "idle", "pull" (inside Parser.pull) or "panic"
    op,         \* the Parser call that is inside pull()
    cur,        \* the Line pull() is assembling
    ret,        \* what the last completed Parser call returned
    fwd,        \* the Lines returned by the latest consecutive Next() calls
    bwd,        \* the Lines returned by the Backup() calls that followed them
    drv,        \* Parse: "off" (Parser used directly), "step", "done", "panic"
    steps,      \* Parse: step functions invoked so far
    nerr,       \* calls of Parser.Errorf so far
    vcalls,     \* Parse: calls of parseObject.Validate
    vret,       \* Parse: what Validate returned (NotSet: not called)
    result,     \* Parse: the error returned (NotSet: not returned)
    form,       \* line package: how the line handed to line.New was written
    lineStr,    \* line package: the string handed to line.New
    lstate,     \* line package: "off", "new" (before New), "ready", "panic"
    l,          \* line package: the *Lexer, its index and items
    lret,       \* line package: what the last Lexer.Next() returned
    d,          \* line package: the fields of the DecodeList
    dret,       \* line package: what the last Decode(l) returned and from where
    rng,        \* line package: the goroutine and the channel of Lexer.Range
    running     \* a goroutine executes lexer.run() on the channel Parser.recv

vars == <<input, todo, closed, queue, lines, pos, err, cancelled, cstate, op,
          cur, ret, fwd, bwd, drv, steps, nerr, vcalls, vret, result,
          form, lineStr, lstate, l, lret, d, dret, rng, running>>

lexVars == <<input, todo, closed, running>>
parserVars == <<lines, pos, cstate, op, cur, ret, fwd, bwd>>
parseVars == <<steps, nerr, vcalls, vret, result>>
lineVars == <<form, lineStr, lstate, l, lret, d, dret, rng>>

\* newParser + go p.lex.run(): an empty Parser over a fresh channel.
InitParser ==
    /\ todo = UntilSpace(input) /\ closed = FALSE /\ queue = <<>>
    /\ lines = <<>> /\ pos = 0 /\ err = NoErr /\ cancelled = FALSE
    /\ cstate = "idle" /\ op = NoCall /\ cur = ZeroLine /\ ret = NoRet
    /\ fwd = <<>> /\ bwd = <<>>
    /\ nerr = 0 /\ vcalls = 0 /\ vret = NotSet /\ result = NotSet
    /\ form = NoForm /\ lineStr = <<>> /\ lstate = "off" /\ l = NilLexer
    /\ lret = NoItem /\ d = ZeroDecodeList /\ dret = NoDecode /\ rng = NoRange
    /\ running = TRUE

\* The Parser driven directly, as the tests do.
Init == input \in Inputs /\ InitParser /\ drv = "off" /\ steps = 0

\* Parse(ctx, content, parseObject) about to run parseObject.Start.
InitParse == input \in ParseInputs /\ InitParser /\ drv = "step" /\ steps = 1

\* ------------------------------------------------------ tokenizer goroutine
\* newParser gives the lexer context.Background(), which is never done; the
\* context p.cancel cancels is a different one.
LexCtxDone == FALSE

\* One l.emit(): addItemsChannel either sees ctx.Done() and drops the item or
\* sends it, blocking while the channel is full.
addItemsChannel ==
    /\ running
    /\ ~closed
    /\ todo # <<>>
    /\ IF LexCtxDone
       THEN queue' = queue
       ELSE /\ Len(queue) < ChanCap
            /\ queue' = Append(queue, Head(todo))
    /\ todo' = Tail(todo)
    /\ UNCHANGED <<input, closed, running, err, cancelled, drv>>
    /\ UNCHANGED <<parserVars, parseVars, lineVars>>

runWithoutClose ==
    /\ running
    /\ ~closed
    /\ todo = <<>>
    /\ UNCHANGED vars

\* lexer.run: the state function returned nil, close(l.items).
run ==
    /\ running
    /\ ~closed
    /\ todo = <<>>
    /\ closed' = TRUE
    /\ UNCHANGED <<input, todo, running, queue, err, cancelled, drv>>
    /\ UNCHANGED <<parserVars, parseVars, lineVars>>

\* ------------------------------------------------------------ Parser calls
\* A Parser method can be called: the consumer is not inside a call, and it is
\* either a direct user of the Parser or a step function run by Parse.
CanCall == cstate = "idle" /\ drv \in {"off", "step"}

\* The last n elements of s.
LastN(s, n) == IF Len(s) <= n THEN s ELSE SubSeq(s, Len(s) - n + 1, Len(s))

\* What a panicking Backup() contributes to bwd: no Line.
PanicLine == [Items |-> <<>>, LineNum |-> -1, Raw |-> <<>>]

\* The bookkeeping of fwd and bwd when a call completes with r.
Record(r) ==
    IF r.op = "Next" THEN
        /\ fwd' = IF bwd # <<>> THEN <<r.line>> ELSE LastN(Append(fwd, r.line), MaxRun)
        /\ bwd' = <<>>
    ELSE IF r.op = "Backup" /\ Len(bwd) < Len(fwd) THEN
        /\ bwd' = Append(bwd, IF r.st = "panic" THEN PanicLine ELSE r.line)
        /\ fwd' = fwd
    ELSE fwd' = <<>> /\ bwd' = <<>>

\* The state after call o has run to outcome res with buffer ls.  A panic
\* inside a step function unwinds Parse: its deferred p.cancel() runs and
\* Parse does not return.
Apply(o, res, ls) ==
    /\ lines' = ls
    /\ pos' = res.pos
    /\ cur' = ZeroLine
    /\ IF res.st = "pull"
       THEN /\ cstate' = "pull" /\ op' = o
            /\ UNCHANGED <<ret, fwd, bwd, drv, cancelled>>
       ELSE /\ cstate' = (IF res.st = "panic" THEN "panic" ELSE "idle")
            /\ op' = NoCall
            /\ ret' = res.ret
            /\ Record(res.ret)
            /\ IF res.st = "panic" /\ drv = "step"
               THEN drv' = "panic" /\ cancelled' = TRUE
               ELSE UNCHANGED <<drv, cancelled>>
    /\ UNCHANGED <<lexVars, err, parseVars, lineVars>>

\* Parser.Next().
ParserNext ==
    /\ CanCall
    /\ UNCHANGED queue
    /\ LET o == Call("Next", <<>>, <<>>)
       IN  Apply(o, Loop(o, lines, pos), lines)

\* Parser.Backup().
Backup ==
    /\ CanCall
    /\ UNCHANGED queue
    /\ LET b == BackupStep(lines, pos)
           st == IF b.panic THEN "panic" ELSE "done"
           rs == IF b.panic THEN "panic" ELSE "ok"
       IN  Apply(NoCall, Out(st, b.pos, Ret("Backup", rs, b.line)), lines)

\* Parser.Peek(): Next() then Backup().
Peek ==
    /\ CanCall
    /\ UNCHANGED queue
    /\ LET o == Call("Peek", <<>>, <<>>)
       IN  Apply(o, Loop(o, lines, pos), lines)

\* Parser.FindStart(find).
FindStartOf(f) ==
    /\ CanCall
    /\ UNCHANGED queue
    /\ LET o == Call("FindStart", f, <<>>)
       IN  Apply(o, Loop(o, lines, pos), lines)

FindStart == \E f \in Finds : FindStartOf(f)

\* Parser.FindUntil(find, until).
FindUntilOf(f, u) ==
    /\ CanCall
    /\ UNCHANGED queue
    /\ LET o == Call("FindUntil", f, u)
       IN  Apply(o, Loop(o, lines, pos), lines)

FindUntil == \E f \in Finds, u \in Untils : FindUntilOf(f, u)

\* Parser.FindREStart(find): an empty pattern list is an error before any Next().
FindREStart ==
    /\ CanCall
    /\ UNCHANGED queue
    /\ \E f \in REFinds :
        LET o == Call("FindREStart", f, <<>>)
        IN  IF Len(f) = 0
            THEN Apply(o, Out("done", pos, Ret("FindREStart", "err", ZeroLine)), lines)
            ELSE Apply(o, Loop(o, lines, pos), lines)

pullItemNoAppend(line, item) ==
    IF item.Type \in {ItemEOF, ItemEOL}
    THEN [Items |-> Append(line.Items, Item(item.Type, item.Val, 0, <<>>)),
          LineNum |-> item.lineNum, Raw |-> item.raw]
    ELSE line

\* The Line pull() returns once it has received item: a terminal item ends the
\* Line and hands it its raw text and line number.
pullItem(line, item) ==
    IF item.Type \in {ItemEOF, ItemEOL}
    THEN [Items |-> Append(line.Items, Item(item.Type, item.Val, 0, <<>>)),
          LineNum |-> item.lineNum, Raw |-> item.raw]
    ELSE [line EXCEPT !.Items = Append(line.Items, item)]

\* p.lines = append(p.lines, p.pull()) in Parser.Next.
appendLineRewriting(ls, line) == Append([i \in 1..Len(ls) |-> line], line)

appendLine(ls, line) == Append(ls, line)

\* pull() returns on item: the case ItemEOF, ItemEOL of its switch.
pullReturnsOnEOFOnly(item) == item.Type = ItemEOF

pullReturnsOn(item) == item.Type \in {ItemEOF, ItemEOL}

\* One iteration of "for item := range p.recv" in Parser.pull.  On a terminal
\* item, or when the channel is closed and empty, pull() returns; Next()
\* appends the Line and the call that was waiting continues.
pull ==
    /\ cstate = "pull"
    /\ queue # <<>> \/ closed
    /\ LET got  == queue # <<>>
           item == Head(queue)
           line == IF got THEN pullItem(cur, item) ELSE cur
           more == got /\ ~pullReturnsOn(item)
           ls   == appendLine(lines, line)
           p    == NextStep(lines, pos).pos
       IN  /\ queue' = (IF got THEN Tail(queue) ELSE queue)
           /\ IF more
              THEN /\ cur' = line
                   /\ UNCHANGED <<lines, pos, cstate, op, ret, fwd, bwd, drv, cancelled>>
                   /\ UNCHANGED <<lexVars, err, parseVars, lineVars>>
              ELSE Apply(op, After(op, ls, p, ls[p]), ls)

Next == addItemsChannel \/ run \/ ParserNext \/ Backup \/ Peek \/ FindStart
        \/ FindUntil \/ FindREStart \/ pull

Spec == Init /\ [][Next]_vars

\* The tokenizer and a consumer that reads every Line with Next().
InitLex == input \in LexInputs /\ InitParser /\ drv = "off" /\ steps = 0

NextLex == addItemsChannel \/ run \/ ParserNext \/ pull

LexSpec == InitLex /\ [][NextLex]_vars

\* The same with the scheduling the Go runtime gives: the tokenizer goroutine
\* runs while it can send or close, and the consumer keeps receiving and
\* keeps calling Next().
LexLive ==
    /\ InitLex /\ [][NextLex]_vars
    /\ WF_vars(addItemsChannel) /\ WF_vars(run)
    /\ WF_vars(pull) /\ WF_vars(ParserNext)

\* --------------------------------------------- inputs holding U+0001
\* Inputs that may hold the character U+0001.
SOHInputs == UNION {[1..k -> {"a", SOH, NL}] : k \in 0..MaxLexLen}

InitSOH == input \in SOHInputs /\ InitParser /\ drv = "off" /\ steps = 0

SOHSpec == InitSOH /\ [][NextLex]_vars

\* ------------------------------------------------------------- Parser.Reset
\* The inputs handed to Reset.
ResetInputs == {<<>>, <<"a">>, <<"a", NL, "a">>}

\* Parser.Reset(s), called when the tokenizer goroutine has returned (a call
\* while it runs races with it on the fields of the lexer).  lexer.reset sets
\* the input and the positions and makes a new channel, which p.recv then
\* names; p.lines = p.lines[:] keeps the buffer and p.pos is not assigned.
\* Nothing starts "go p.lex.run()" for the new input.
Reset ==
    /\ CanCall
    /\ closed \/ ~running
    /\ \E s \in ResetInputs : input' = s /\ todo' = UntilSpace(s)
    /\ queue' = <<>> /\ closed' = FALSE /\ running' = FALSE
    /\ lines' = lines /\ pos' = pos
    /\ ret' = Ret("Reset", "ok", ZeroLine)
    /\ fwd' = <<>> /\ bwd' = <<>>
    /\ UNCHANGED <<cstate, op, cur, err, cancelled, drv, parseVars, lineVars>>

NextReset == addItemsChannel \/ run \/ ParserNext \/ Backup \/ pull \/ Reset

\* A Parser that is read and reset, with a tokenizer goroutine that runs
\* while it can and a consumer that receives while it can.
ResetLive ==
    /\ Init /\ [][NextReset]_vars
    /\ WF_vars(addItemsChannel) /\ WF_vars(run) /\ WF_vars(pull)

\* -------------------------------------------------------------------- Parse
\* Parser.HasError().
HasError == err

\* Parser.Errorf(...), called by a step function: p.err = fmt.Errorf(...),
\* every call of fmt.Errorf making a new error value.
Errorf ==
    /\ CanCall /\ drv = "step"
    /\ nerr < MaxErrs
    /\ nerr' = nerr + 1
    /\ err' = ErrorfErr(nerr + 1)
    /\ UNCHANGED <<lexVars, queue, cancelled, drv, parserVars, steps, vcalls, vret,
                   result, lineVars>>

\* What Parse does once the loop is over, Validate returning v if it is
\* called: <<calls of Validate, what Validate returned, the error returned>>.
afterLoopValidateFirst(v) ==
    IF v # NoErr THEN <<1, v, v>> ELSE <<1, v, HasError>>

afterLoop(v) ==
    IF HasError # NoErr THEN <<0, NotSet, HasError>> ELSE <<1, v, v>>

\* The condition of the loop of Parse, "state != nil", state being what the
\* step function returned: "nil" or "fn", a ParseFn.
loopRunsAlways(state) == TRUE

loopRuns(state) == state # "nil"

\* The running step function returns state.  A ParseFn is invoked by the next
\* iteration of the loop; on nil the loop ends, Parse checks HasError, calls
\* Validate, returns, and the deferred p.cancel() runs.
stepReturns(state) ==
    /\ CanCall /\ drv = "step"
    /\ IF loopRuns(state)
       THEN /\ steps < MaxSteps
            /\ steps' = steps + 1
            /\ UNCHANGED <<cancelled, drv, vcalls, vret, result>>
       ELSE /\ \E v \in ValidateErrs :
                /\ vcalls' = vcalls + afterLoop(v)[1]
                /\ vret' = afterLoop(v)[2]
                /\ result' = afterLoop(v)[3]
            /\ drv' = "done"
            /\ cancelled' = TRUE
            /\ UNCHANGED steps
    /\ UNCHANGED <<lexVars, queue, err, parserVars, nerr, lineVars>>

stepReturnsFn == stepReturns("fn")

stepReturnsNil == stepReturns("nil")

NextParse == Next \/ Errorf \/ stepReturnsFn \/ stepReturnsNil

ParseSpec == InitParse /\ [][NextParse]_vars

\* ------------------------------------------------------------ package line
\* The variables of package halfpike, which package line does not touch.
halfpikeVars == <<lexVars, queue, err, cancelled, drv, parserVars, parseVars>>

\* A line and a DecodeList, before line.New(lineStr); no Parser is in use.
InitLine ==
    /\ \E in \in LineInputs : form = in[1] /\ lineStr = LineOf(in[1])
                             /\ d = in[2]
    /\ lstate = "new" /\ l = NilLexer /\ lret = NoItem /\ dret = NoDecode
    /\ rng = NoRange /\ running = FALSE
    /\ input = <<>> /\ todo = <<>> /\ closed = FALSE /\ queue = <<>>
    /\ lines = <<>> /\ pos = 0 /\ err = NoErr /\ cancelled = FALSE
    /\ cstate = "idle" /\ op = NoCall /\ cur = ZeroLine /\ ret = NoRet
    /\ fwd = <<>> /\ bwd = <<>> /\ drv = "off" /\ steps = 0
    /\ nerr = 0 /\ vcalls = 0 /\ vret = NotSet /\ result = NotSet

\* l := line.New(lineStr); the call panics when the line gives no item.
New ==
    /\ lstate = "new"
    /\ LET items == newLoop(lineStr, 1, <<>>, <<>>, FALSE, FALSE)
       IN  IF newPanics(items)
           THEN lstate' = "panic" /\ l' = l
           ELSE /\ lstate' = "ready"
                /\ l' = [index |-> 0, items |-> newTerminal(items)]
    /\ UNCHANGED <<form, lineStr, lret, d, dret, rng, halfpikeVars>>

\* l.Next().  The caller of Range leaves the Lexer to the goroutine until
\* the channel is closed, here and in the calls below.
LexerNext ==
    /\ lstate = "ready" /\ rng.state # "select"
    /\ l' = lexerNext(l).l /\ lret' = lexerNext(l).item /\ dret' = NoDecode
    /\ rng' = NoRange
    /\ UNCHANGED <<form, lineStr, lstate, d, halfpikeVars>>

\* l.Backup().
LexerBackup ==
    /\ lstate = "ready" /\ rng.state # "select"
    /\ l' = lexerBackup(l) /\ lret' = NoItem /\ dret' = NoDecode
    /\ rng' = NoRange
    /\ UNCHANGED <<form, lineStr, lstate, d, halfpikeVars>>

\* d.Decode(l).
Decode ==
    /\ lstate = "ready"
    /\ LET r == decode(d, l)
       IN  /\ l' = r.l
           /\ dret' = [items |-> r.items, err |-> r.err, from |-> l.index,
                       called |-> TRUE]
    /\ lret' = NoItem
    /\ UNCHANGED <<form, lineStr, lstate, d, rng, halfpikeVars>>

\* line.New alone, over the lines of NumLines.
InitNew ==
    /\ \E s \in NumLines : form = Raw(s) /\ lineStr = s
    /\ d = ZeroDecodeList
    /\ lstate = "new" /\ l = NilLexer /\ lret = NoItem /\ dret = NoDecode
    /\ rng = NoRange /\ running = FALSE
    /\ input = <<>> /\ todo = <<>> /\ closed = FALSE /\ queue = <<>>
    /\ lines = <<>> /\ pos = 0 /\ err = NoErr /\ cancelled = FALSE
    /\ cstate = "idle" /\ op = NoCall /\ cur = ZeroLine /\ ret = NoRet
    /\ fwd = <<>> /\ bwd = <<>> /\ drv = "off" /\ steps = 0
    /\ nerr = 0 /\ vcalls = 0 /\ vret = NotSet /\ result = NotSet

NewSpec == InitNew /\ [][New]_vars

\* l.Peek().
LexerPeek ==
    /\ lstate = "ready" /\ rng.state # "select"
    /\ l' = lexerPeek(l).l /\ lret' = lexerPeek(l).item /\ dret' = NoDecode
    /\ rng' = NoRange
    /\ UNCHANGED <<form, lineStr, lstate, d, halfpikeVars>>

\* SkipAllSpaces(l).
SkipAllSpaces ==
    /\ lstate = "ready" /\ rng.state # "select"
    /\ l' = skipAllSpaces(l) /\ lret' = NoItem /\ dret' = NoDecode
    /\ rng' = NoRange
    /\ UNCHANGED <<form, lineStr, lstate, d, halfpikeVars>>

\* ch := l.Range(ctx): the goroutine starts, calls l.Next() and waits in the
\* select with the item; the channel is unbuffered and the caller receives
\* from it.
Range ==
    /\ lstate = "ready" /\ rng.state # "select"
    /\ rng' = [state |-> "select", item |-> lexerNext(l).item, at |-> NextAt(l),
               from |-> l.index, sent |-> <<>>, ctxDone |-> FALSE,
               how |-> "none"]
    /\ l' = lexerNext(l).l /\ lret' = NoItem /\ dret' = NoDecode
    /\ UNCHANGED <<form, lineStr, lstate, d, halfpikeVars>>

\* The context handed to Range is cancelled.
cancelCtx ==
    /\ rng.state = "select" /\ ~rng.ctxDone
    /\ rng' = [rng EXCEPT !.ctxDone = TRUE]
    /\ UNCHANGED <<form, lineStr, lstate, l, lret, d, dret, halfpikeVars>>

\* Range, case ch <- i: the caller receives the item; after an ItemEOL or
\* ItemEOF the goroutine returns and the deferred close(ch) runs, otherwise
\* it calls l.Next() and waits in the select again.
rangeSend ==
    /\ rng.state = "select"
    /\ IF rangeStops(rng.item)
       THEN /\ rng' = [rng EXCEPT !.sent = Append(@, rng.item),
                                  !.state = "closed", !.how = "end"]
            /\ l' = l
       ELSE /\ rng' = [rng EXCEPT !.sent = Append(@, rng.item),
                                  !.item = lexerNext(l).item, !.at = NextAt(l)]
            /\ l' = lexerNext(l).l
    /\ UNCHANGED <<form, lineStr, lstate, lret, d, dret, halfpikeVars>>

\* Range, case <-ctx.Done(): l.Backup(), return, close(ch).
rangeCtxDone ==
    /\ rng.state = "select" /\ rng.ctxDone
    /\ rng' = [rng EXCEPT !.state = "closed", !.how = "cancel"]
    /\ l' = lexerBackup(l)
    /\ UNCHANGED <<form, lineStr, lstate, lret, d, dret, halfpikeVars>>

\* Every line of at most MaxLineLen characters among a letter, the space and
\* the newline.
LexerLines == UNION {[1..k -> Alphabet] : k \in 0..MaxLineLen}

\* A Lexer used through Next, Backup, Peek, SkipAllSpaces and Range.
InitLexer ==
    /\ \E s \in LexerLines : form = Raw(s) /\ lineStr = s
    /\ d = ZeroDecodeList
    /\ lstate = "new" /\ l = NilLexer /\ lret = NoItem /\ dret = NoDecode
    /\ rng = NoRange /\ running = FALSE
    /\ input = <<>> /\ todo = <<>> /\ closed = FALSE /\ queue = <<>>
    /\ lines = <<>> /\ pos = 0 /\ err = NoErr /\ cancelled = FALSE
    /\ cstate = "idle" /\ op = NoCall /\ cur = ZeroLine /\ ret = NoRet
    /\ fwd = <<>> /\ bwd = <<>> /\ drv = "off" /\ steps = 0
    /\ nerr = 0 /\ vcalls = 0 /\ vret = NotSet /\ result = NotSet

NextLexer == New \/ LexerNext \/ LexerBackup \/ LexerPeek \/ SkipAllSpaces
             \/ Range \/ cancelCtx \/ rangeSend \/ rangeCtxDone

LexerSpec == InitLexer /\ [][NextLexer]_vars

\* The same with the scheduling of the Go runtime and a caller that receives
\* from the channel until it is closed: the goroutine leaves the select.
LexerLive ==
    /\ InitLexer /\ [][NextLexer]_vars
    /\ WF_vars(rangeSend) /\ WF_vars(rangeCtxDone)

NextLine == New \/ LexerNext \/ LexerBackup \/ Decode

LineSpec == InitLine /\ [][NextLine]_vars

\* ------------------------------------------------------------------- claims
\* C1: once Parse has returned, the tokenizer goroutine terminates: it has
\* closed the channel or it can still take a step (it is not blocked for ever
\* on a full channel that nobody reads any more).
C1_TokenizerTerminates ==
    drv = "done" => (closed \/ ENABLED addItemsChannel \/ ENABLED run)

\* C2: after two or more Errorf calls HasError is the error of the first call.
C2_FirstErrorSticky == nerr >= 2 => HasError = ErrorfErr(1)

C4_ValidateAndResult ==
    /\ vcalls <= 1
    /\ drv # "done" => (vcalls = 0 /\ result = NotSet)
    /\ drv = "done" =>
        /\ vcalls = (IF nerr = 0 THEN 1 ELSE 0)
        /\ nerr = 0 => vret \in ValidateErrs
        /\ result = (IF nerr > 0 THEN HasError ELSE vret)

C4_Witness ==
    drv = "done" /\ steps > 1 /\ nerr = 0 /\ vcalls = 1 /\ result = ValidateErr

\* The items of a Line as the tokenizer emitted them: the terminal item
\* carrying the line number and the raw text.
ItemsOf(line) ==
    [i \in 1..Len(line.Items) |->
        IF i = Len(line.Items) /\ line.Items[i].Type \in {ItemEOF, ItemEOL}
        THEN Item(line.Items[i].Type, line.Items[i].Val, line.LineNum, line.Raw)
        ELSE line.Items[i]]

RECURSIVE Flatten(_)
Flatten(ls) == IF ls = <<>> THEN <<>> ELSE ItemsOf(Head(ls)) \o Flatten(Tail(ls))

\* An item sequence cut after each ItemEOL / ItemEOF: the complete Lines.
RECURSIVE CutFrom(_, _)
CutFrom(items, acc) ==
    IF items = <<>> THEN <<>>
    ELSE LET it == Head(items)
         IN  IF it.Type \in {ItemEOF, ItemEOL}
             THEN <<[Items |-> Append(acc, Item(it.Type, it.Val, 0, <<>>)),
                     LineNum |-> it.lineNum, Raw |-> it.raw]>>
                  \o CutFrom(Tail(items), <<>>)
             ELSE CutFrom(Tail(items), Append(acc, it))

\* The items the tokenizer has passed to addItemsChannel so far.
Emitted ==
    SubSeq(UntilSpace(input), 1, Len(UntilSpace(input)) - Len(todo))

\* The cursor stands at the end of the buffer and the last buffered Line is
\* the end-of-input Line.
AtEOF ==
    /\ Len(lines) > 0 /\ pos >= Len(lines)
    /\ ~EOFPanics(lines[Len(lines)]) /\ EOF(lines[Len(lines)])

\* C5: whatever the interleaving, the buffered Lines, the Line being pulled
\* and the channel hold the emitted items in emission order, none lost or
\* duplicated; the buffer is that sequence cut after each terminal item, and
\* Next() calls in a row return consecutive Lines of it.
C5_LinesInEmissionOrder ==
    /\ Flatten(lines) \o cur.Items \o queue = Emitted
    /\ lines = CutFrom(SubSeq(Emitted, 1, Len(Flatten(lines))), <<>>)
    /\ (ret.op = "Next" /\ cstate = "idle") => ret.line = lines[pos]
    /\ (bwd = <<>> /\ ~AtEOF /\ cstate = "idle") =>
           fwd = SubSeq(lines, pos - Len(fwd) + 1, pos)

C5_Witness ==
    cstate = "pull" /\ Len(queue) = ChanCap /\ cur.Items # <<>>

\* C6: with the end-of-input Line returned, a further Next() returns that
\* Line at once and changes neither the cursor nor the buffer.
C6_NextIdempotentAtEOF ==
    [][(ParserNext /\ AtEOF) =>
         /\ cstate' = "idle"
         /\ ret' = Ret("Next", "ok", lines[Len(lines)])
         /\ pos' = pos /\ lines' = lines]_vars

C6_Witness ==
    /\ AtEOF /\ ret.op = "Next" /\ Len(fwd) >= 3
    /\ fwd[Len(fwd)] = fwd[Len(fwd) - 1]
    /\ fwd[Len(fwd)] # fwd[Len(fwd) - 2]

\* C7: N Next() calls followed by N Backup() calls succeed and the Lines the
\* Backup calls return, reversed, are the Lines the Next calls returned.
C7_NextBackupRoundTrip ==
    \A j \in 1..Len(bwd) : bwd[j] = fwd[Len(fwd) + 1 - j]

\* A step in which a Peek() call returns.
PeekReturns == (Peek \/ (pull /\ op.name = "Peek")) /\ cstate' # "pull"

\* C8: Peek returns the Line Next would return and leaves the cursor where it
\* was.
C8_PeekKeepsCursor ==
    [][PeekReturns =>
         /\ ret'.st = "ok"
         /\ ret'.line = NextStep(lines', pos).line
         /\ pos' = pos]_vars

\* C9: Backup() at cursor 0 panics: it returns no Line and does not leave the
\* cursor at 0.
C9_BackupAtZeroPanics ==
    [][(Backup /\ pos = 0) =>
         /\ cstate' = "panic"
         /\ ret' = Ret("Backup", "panic", ZeroLine)
         /\ pos' < 0]_vars

C9_Witness ==
    cstate = "panic" /\ ret.op = "Backup" /\ Len(lines) >= 2 /\ pos < 0

\* C10: as long as no call has panicked, 0 <= cursor <= number of buffered
\* Lines.
C10_CursorInRange ==
    cstate # "panic" => (0 <= pos /\ pos <= Len(lines))

C10_Witness ==
    /\ ret.op = "FindUntil" /\ ret.st = "until"
    /\ pos = Len(lines) - 1 /\ AtEOF = FALSE /\ Len(lines) >= 2
    /\ EOF(lines[Len(lines)])

\* C11: the line buffer is append-only.  Every step leaves the buffer as it
\* was or appends one Line to it; the part of Next() before pull() appends
\* nothing, Backup() changes nothing, and a Next() call returns right after
\* the one Line it appends.
C11_BufferAppendOnly ==
    [][/\ Len(lines) <= Len(lines') /\ Len(lines') <= Len(lines) + 1
       /\ SubSeq(lines', 1, Len(lines)) = lines
       /\ (ParserNext \/ Backup) => lines' = lines
       /\ (cstate = "pull" /\ op.name = "Next" /\ lines' # lines) =>
              (cstate' = "idle" /\ ret'.op = "Next" /\ ret'.line = lines'[Len(lines')])
      ]_vars

C11_Witness ==
    /\ Len(lines) >= 3 /\ pos = 1 /\ cstate = "idle"
    /\ ret.op = "Backup" /\ ret.st = "ok" /\ ret.line = lines[2]

\* The tokens the text asks for: every maximal run of non-whitespace
\* characters, in source order, each physical line that holds a run closed by
\* "EOL" and the last one by "EOF".  word is the pending run, any tells
\* whether the current line has produced a run.
RECURSIVE RefTokensFrom(_, _, _, _, _)
RefTokensFrom(in, i, word, any, out) ==
    LET w == IF word = <<>> THEN <<>> ELSE <<<<"run", word>>>>
    IN  IF i > Len(in) THEN out \o w \o <<<<"EOF", <<>>>>>>
        ELSE IF in[i] = NL THEN
            IF any \/ word # <<>>
            THEN RefTokensFrom(in, i + 1, <<>>, FALSE, out \o w \o <<<<"EOL", <<>>>>>>)
            ELSE RefTokensFrom(in, i + 1, <<>>, FALSE, out)
        ELSE IF IsSpace(in[i]) THEN
            RefTokensFrom(in, i + 1, <<>>, any \/ word # <<>>, out \o w)
        ELSE RefTokensFrom(in, i + 1, Append(word, in[i]), any, out)

RefTokens(in) == RefTokensFrom(in, 1, <<>>, FALSE, <<>>)

\* An emitted item as a token: a run with its Val, or a terminal.
AsToken(item) ==
    IF item.Type = ItemEOF THEN <<"EOF", <<>>>>
    ELSE IF item.Type = ItemEOL THEN <<"EOL", <<>>>>
    ELSE IF item.Type \in {ItemText, ItemInt, ItemFloat} THEN <<"run", item.Val>>
    ELSE <<"other", item.Val>>

\* C12: the items emitted so far are the tokens of the input, in order: one
\* Text/Integer/Float item per maximal run of non-whitespace characters, its
\* Val that run, before the terminal item of its line; a run that ends at the
\* end of the input included.
C12_EveryRunEmitted ==
    [i \in 1..Len(Emitted) |-> AsToken(Emitted[i])]
        = SubSeq(RefTokens(input), 1, Len(Emitted))

\* The 1-based numbers of the physical lines of the input that make a Line:
\* every line holding a non-whitespace character, and the line the input ends
\* on.  n is the number of the line of character i, any tells whether the
\* line has shown a non-whitespace character.
RECURSIVE RefLineNumsFrom(_, _, _, _, _)
RefLineNumsFrom(in, i, n, any, out) ==
    IF i > Len(in) THEN Append(out, n)
    ELSE IF in[i] = NL
        THEN RefLineNumsFrom(in, i + 1, n + 1, FALSE, IF any THEN Append(out, n) ELSE out)
    ELSE RefLineNumsFrom(in, i + 1, n, any \/ ~IsSpace(in[i]), out)

RefLineNums(in) == RefLineNumsFrom(in, 1, 1, FALSE, <<>>)

\* C13: the LineNum of every Line Next() has returned is the 1-based number of
\* its physical line in the input, blank lines counted; it is at least 1.
C13_LineNumOneBased ==
    /\ Len(lines) <= Len(RefLineNums(input))
    /\ \A k \in 1..Len(lines) :
          lines[k].LineNum = RefLineNums(input)[k] /\ lines[k].LineNum >= 1

\* The source text of the physical lines that make a Line, each with its
\* trailing newline; the line the input ends on has none.  text is the line
\* read so far.
RECURSIVE RefRawsFrom(_, _, _, _, _)
RefRawsFrom(in, i, text, any, out) ==
    IF i > Len(in) THEN Append(out, text)
    ELSE IF in[i] = NL
        THEN RefRawsFrom(in, i + 1, <<>>, FALSE,
                         IF any THEN Append(out, Append(text, NL)) ELSE out)
    ELSE RefRawsFrom(in, i + 1, Append(text, in[i]), any \/ ~IsSpace(in[i]), out)

RefRaws(in) == RefRawsFrom(in, 1, <<>>, FALSE, <<>>)

\* C14: the Raw of every Line Next() has returned is the source text of its
\* one physical line with the trailing newline (the end-of-input Line: the
\* text of the last line followed by the end-of-input rune); it does not
\* begin with a newline and holds no text of a blank line before it.
C14_RawIsOneLine ==
    /\ Len(lines) <= Len(RefRaws(input))
    /\ \A k \in 1..Len(lines) :
          /\ lines[k].Raw # <<>> /\ lines[k].Raw[1] # NL
          /\ lines[k].Raw = IF EOF(lines[k]) THEN Append(RefRaws(input)[k], EOFRune)
                            ELSE RefRaws(input)[k]

\* A Line holds exactly one terminal item, its last item.
Terminated(line) ==
    /\ Len(line.Items) >= 1
    /\ \A i \in 1..Len(line.Items) :
          (line.Items[i].Type \in {ItemEOL, ItemEOF}) <=> (i = Len(line.Items))

\* C15: every buffered Line, and every Line a call of Next, Peek, Backup,
\* FindStart, FindUntil or FindREStart has returned, holds exactly one
\* terminal item (EndOfLine or EndOfInput), and it is the last item.
C15_OneTerminalLast ==
    /\ \A k \in 1..Len(lines) : Terminated(lines[k])
    /\ ret.st = "ok" => Terminated(ret.line)

C15_Witness ==
    /\ ret.op = "FindREStart" /\ ret.st = "ok" /\ Len(ret.line.Items) >= 3
    /\ pos = Len(lines) /\ ret.line = lines[pos] /\ ~EOF(ret.line)

\* C16: a whitespace-only source line makes no Line.  There are no more
\* Lines than physical lines holding a non-whitespace character (plus the
\* end-of-input Line), and every Line that ends with EndOfLine holds a
\* non-empty Text, Integer or Float item before it.
C16_NoLineForBlankLine ==
    /\ Len(lines) <= Len(RefLineNums(input))
    /\ \A k \in 1..Len(lines) :
          (~EOFPanics(lines[k]) /\ ~EOF(lines[k])) =>
              /\ Len(lines[k].Items) >= 2
              /\ lines[k].Items[1].Type \in {ItemText, ItemInt, ItemFloat}
              /\ lines[k].Items[1].Val # <<>>

C16_Witness ==
    /\ Len(input) = 4 /\ input[2] = NL /\ input[3] = SP /\ input[4] = NL
    /\ Len(lines) = 2 /\ ~EOF(lines[1]) /\ EOF(lines[2]) /\ closed

\* C17: for every buffered Line and every pattern, IsAtStart is true exactly
\* when the pattern is no longer than the Line's items (the terminal item
\* counted) and each atom is Skip or the Val of the item at its position.
C17_IsAtStartExact ==
    \A k \in 1..Len(lines) : \A f \in Finds :
        IsAtStart(lines[k], f) <=>
            /\ Len(f) <= Len(lines[k].Items)
            /\ \A i \in 1..Len(f) : f[i] = Skip \/ lines[k].Items[i].Val = f[i]

C17_Witness ==
    /\ ret.op = "FindStart" /\ ret.st = "err" /\ Len(lines) >= 2
    /\ Len(lines[Len(lines)].Items) = 1
    /\ IsAtStart(lines[1], <<Skip, Skip>>) /\ ~IsAtStart(lines[1], <<<<"a">>, <<"a">>>>)
    /\ ~IsAtStart(lines[Len(lines)], <<Skip, Skip>>)
    /\ IsAtStart(lines[Len(lines)], <<>>)

\* A step that starts a call of the Parser method name: the consumer was idle,
\* the tokenizer did not move, and the call is now blocked in pull() or has
\* returned.
CallStarts(name) ==
    /\ cstate = "idle" /\ todo' = todo /\ closed' = closed
    /\ IF cstate' = "pull" THEN op'.name = name ELSE ret'.op = name

\* A step that resumes a call of name blocked in pull().
CallResumes(name) == cstate = "pull" /\ op.name = name /\ pull

\* C18, for one step of a FindStart(f) call, from its start or from a pull()
\* it was blocked in, the cursor being pos before the step.  The Lines the
\* step examines are those after the cursor (at end-of-input: the
\* end-of-input Line again).  The step returns the first of them that matches,
\* the cursor just past it; or an error when the end-of-input Line is reached
\* unmatched, the cursor staying at end-of-input; or it blocks in pull() with
\* every buffered Line examined and unmatched.
FindStartStepOK(f) ==
    LET unmatched(k) == ~IsAtStart(lines'[k], f)
    IN  /\ cstate' # "panic"
        /\ SubSeq(lines', 1, Len(lines)) = lines
        /\ IF AtEOF
           THEN /\ cstate' = "idle" /\ pos' = pos /\ lines' = lines
                /\ ret' = IF IsAtStart(lines[Len(lines)], f)
                          THEN Ret("FindStart", "ok", lines[Len(lines)])
                          ELSE Ret("FindStart", "err", ZeroLine)
           ELSE /\ pos <= pos' /\ pos' <= Len(lines')
                /\ \A k \in (pos + 1)..(pos' - 1) : unmatched(k) /\ ~EOF(lines'[k])
                /\ IF cstate' = "pull"
                   THEN /\ op' = Call("FindStart", f, <<>>)
                        /\ pos' = Len(lines')
                        /\ pos < pos' => (unmatched(pos') /\ ~EOF(lines'[pos']))
                   ELSE /\ pos < pos' /\ ret'.op = "FindStart"
                        /\ IF IsAtStart(lines'[pos'], f)
                           THEN ret' = Ret("FindStart", "ok", lines'[pos'])
                           ELSE /\ ret' = Ret("FindStart", "err", ZeroLine)
                                /\ EOF(lines'[pos']) /\ pos' = Len(lines')

C18_FindStartFirstMatch ==
    [][/\ CallStarts("FindStart") =>
              \A f \in Finds : FindStartOf(f) => FindStartStepOK(f)
       /\ CallResumes("FindStart") => FindStartStepOK(op.find)]_vars

C18_Witness ==
    /\ ret.op = "FindStart" /\ ret.st = "ok" /\ pos = 2 /\ Len(lines) >= 2
    /\ ret.line = lines[2] /\ ~EOF(lines[2])
    /\ IsAtStart(lines[2], <<<<"a">>>>) /\ ~IsAtStart(lines[1], <<<<"a">>>>)

\* The index in the buffer after the step of the first Line a Find call
\* examines in a step taken at cursor pos: the Line after the cursor, or the
\* end-of-input Line again when the cursor stands at end-of-input.
FirstExamined == IF AtEOF THEN Len(lines) ELSE pos + 1

\* C19, for one step of a FindUntil(f, u) call: when a Line matching u and
\* not f is met, every examined Line before it matching neither and not being
\* the end-of-input Line, the call returns untilFound = true with a zero Line
\* and no error, and the next Next() returns that boundary Line at once.
FindUntilBoundaryOK(f, u) ==
    \A b \in FirstExamined..Len(lines') :
        ( /\ \A k \in FirstExamined..(b - 1) :
                 /\ ~IsAtStart(lines'[k], f) /\ ~IsAtStart(lines'[k], u)
                 /\ ~EOF(lines'[k])
          /\ IsAtStart(lines'[b], u) /\ ~IsAtStart(lines'[b], f) )
        => /\ cstate' = "idle"
           /\ ret' = Ret("FindUntil", "until", ZeroLine)
           /\ NextStep(lines', pos').kind = "ret"
           /\ NextStep(lines', pos').line = lines'[b]
           /\ pos' = b - 1

C19_FindUntilBoundary ==
    [][/\ CallStarts("FindUntil") =>
              \A f \in Finds, u \in Untils :
                  FindUntilOf(f, u) => FindUntilBoundaryOK(f, u)
       /\ CallResumes("FindUntil") => FindUntilBoundaryOK(op.find, op.until)]_vars

C19_Witness ==
    /\ ret = Ret("FindUntil", "until", ZeroLine) /\ pos = 1 /\ Len(lines) >= 2
    /\ ~EOF(lines[2]) /\ IsAtStart(lines[2], <<<<"a">>>>)
    /\ ~IsAtStart(lines[1], <<<<"a">>>>) /\ NextStep(lines, pos).line = lines[2]

\* C20, for one step of a FindUntil(f, u) call: the call returns an error
\* exactly when the first examined Line that matches f, matches u or is the
\* end-of-input Line is the end-of-input Line and matches neither; the Line
\* returned with the error is the zero Line and untilFound is false.  With no
\* such Line buffered the call blocks in pull() and returns nothing.
FindUntilErrorOK(f, u) ==
    LET stop(k) == \/ IsAtStart(lines'[k], f) \/ IsAtStart(lines'[k], u)
                   \/ EOF(lines'[k])
        stops   == {k \in FirstExamined..Len(lines') : stop(k)}
        first   == CHOOSE k \in stops : \A j \in stops : k <= j
    IN  /\ cstate' # "panic"
        /\ IF stops = {}
           THEN cstate' = "pull"
           ELSE /\ cstate' = "idle" /\ ret'.op = "FindUntil"
                /\ ret'.st = "err" <=>
                       /\ ~IsAtStart(lines'[first], f)
                       /\ ~IsAtStart(lines'[first], u)
                /\ ret'.st = "err" => ret'.line = ZeroLine

C20_FindUntilErrorAtEOF ==
    [][/\ CallStarts("FindUntil") =>
              \A f \in Finds, u \in Untils :
                  FindUntilOf(f, u) => FindUntilErrorOK(f, u)
       /\ CallResumes("FindUntil") => FindUntilErrorOK(op.find, op.until)]_vars

C20_Witness ==
    /\ ret = Ret("FindUntil", "err", ZeroLine) /\ Len(lines) >= 3 /\ AtEOF
    /\ \A k \in 1..Len(lines) : ~IsAtStart(lines[k], <<<<"a", "a">>>>)

\* The number of ItemEOF items in an item sequence.
RECURSIVE CountEOF(_)
CountEOF(items) ==
    IF items = <<>> THEN 0
    ELSE (IF Head(items).Type = ItemEOF THEN 1 ELSE 0) + CountEOF(Tail(items))

\* C21: with a consumer that keeps receiving, the tokenizer sends at most one
\* EndOfInput item and nothing after it, closes the channel only after
\* having sent it, and does eventually close it; the consumer calling Next()
\* eventually holds the end-of-input Line and is not left inside pull().
C21_TokenizerFinishes ==
    /\ [](/\ CountEOF(Emitted) <= 1
          /\ CountEOF(Emitted) = 1 => (todo = <<>> /\ Emitted[Len(Emitted)].Type = ItemEOF)
          /\ closed => CountEOF(Emitted) = 1)
    /\ <>[](closed /\ todo = <<>> /\ queue = <<>> /\ AtEOF /\ cstate = "idle")

C21_Witness ==
    /\ closed /\ AtEOF /\ cstate = "idle" /\ Len(lines) >= 3
    /\ Len(fwd) >= 2 /\ fwd[Len(fwd)] = fwd[Len(fwd) - 1]

\* Decode has just returned, having been called on a fresh Lexer.
DecodedFromStart == lstate = "ready" /\ dret.called /\ dret.from = 0

\* The entry holds no quote, escape or newline character.
PlainEntry(e) == \A i \in 1..Len(e) : e[i] \notin {DQ, SQ, BS, NL}

\* The line is a list written with the delimiters, the separator and the
\* quote of d, with nothing before the left delimiter and at most spaces
\* after the right delimiter.
WrittenForD ==
    /\ form.kind = "list" /\ form.pre = <<>> /\ setup(d) = NoErr
    /\ form.q = FirstRune(d.EntryQuote)
    /\ \A i \in 1..Len(form.suf) : form.suf[i] = SP

C23_SingleQuotedListFails ==
    (DecodedFromStart /\ d.EntryQuote = <<DQ>> /\ setup(d) = NoErr
        /\ form.kind = "list" /\ form.q = SQ /\ form.pre = <<>>
        /\ form.suf = <<>> /\ Len(form.entries) >= 1)
    => dret.err # NoErr

\* The entry as written, with every escape character that stands directly
\* before a quote character taken out.
RECURSIVE Unescape(_, _, _)
Unescape(e, esc, q) ==
    IF e = <<>> THEN <<>>
    ELSE IF Len(e) >= 2 /\ e[1] = esc /\ e[2] = q
    THEN <<q>> \o Unescape(SubSeq(e, 3, Len(e)), esc, q)
    ELSE <<e[1]>> \o Unescape(Tail(e), esc, q)

\* C24: with an escape character configured, an escape character directly
\* followed by the quote character inside a quoted entry does not close the
\* entry, and the decoded entry holds the quote character without the escape
\* character.
C24_EscapedQuoteResolved ==
    (DecodedFromStart /\ WrittenForD /\ d.EscapeCharacter # <<>>)
    => /\ dret.err = NoErr
       /\ Len(dret.items) = Len(form.entries)
       /\ \A k \in 1..Len(form.entries) :
              dret.items[k] = Unescape(form.entries[k],
                                       FirstRune(d.EscapeCharacter),
                                       FirstRune(d.EntryQuote))

\* The first character of s that is not a space, NoRune if there is none.
RECURSIVE FirstNonSpace(_)
FirstNonSpace(s) ==
    IF s = <<>> THEN NoRune
    ELSE IF IsSpace(Head(s)) THEN FirstNonSpace(Tail(s))
    ELSE Head(s)

\* C25: the left delimiter must be the first non-space character Decode
\* reads: a written list preceded by one or more spaces decodes to its
\* entries with a nil error, and a line whose first non-space character is
\* not the left delimiter makes Decode return an error.
C25_LeftDelimiterFirstNonSpace ==
    DecodedFromStart /\ setup(d) = NoErr
    => /\ (/\ form.kind = "list" /\ form.q = FirstRune(d.EntryQuote)
           /\ form.pre # <<>> /\ FirstNonSpace(form.pre) = NoRune
           /\ form.suf = <<>>)
          => (dret.err = NoErr /\ dret.items = form.entries)
       /\ FirstNonSpace(lineStr) # FirstRune(d.LeftConstraint)
          => dret.err # NoErr

\* Whether the characters of s from the i-th on, up to the right delimiter
\* outside quotes or the end of the line, hold a separator outside quotes
\* that does not follow, spaces apart, a quote character that closed an
\* entry.  inQ tells whether a quote is open, last is the character before,
\* shut whether the last non-space character is a quote that closed an
\* entry.  A quote character directly after the escape character is a
\* literal character.
RECURSIVE MisplacedSepFrom(_, _, _, _, _, _)
MisplacedSepFrom(dl, s, i, inQ, last, shut) ==
    IF i > Len(s) \/ s[i] = NL THEN FALSE
    ELSE LET c == s[i]
             esc == FirstRune(dl.EscapeCharacter)
         IN  IF IsSpace(c) THEN MisplacedSepFrom(dl, s, i + 1, inQ, c, shut)
             ELSE IF c = FirstRune(dl.EntryQuote)
             THEN IF esc # NoRune /\ last = esc
                  THEN MisplacedSepFrom(dl, s, i + 1, inQ, c, FALSE)
                  ELSE MisplacedSepFrom(dl, s, i + 1, ~inQ, c, inQ)
             ELSE IF c = FirstRune(dl.Separator) /\ ~inQ
             THEN ~shut \/ MisplacedSepFrom(dl, s, i + 1, inQ, c, FALSE)
             ELSE IF c = FirstRune(dl.RightConstraint) /\ ~inQ THEN FALSE
             ELSE MisplacedSepFrom(dl, s, i + 1, inQ, c, FALSE)

\* C26: a separator outside quotes is accepted only when the last non-space
\* character before it is the quote character that closed an entry: a line
\* with a separator outside quotes anywhere else before the right delimiter
\* makes Decode return an error.
C26_SeparatorAfterClosingQuoteOnly ==
    (DecodedFromStart /\ setup(d) = NoErr
        /\ MisplacedSepFrom(d, lineStr, 1, FALSE, NoRune, FALSE))
    => dret.err # NoErr

\* Whether the characters of s from the i-th on hold, before the end of the
\* line, a right delimiter outside quotes.  inQ tells whether a quote is
\* open, last is the character before; a quote character directly after the
\* escape character is a literal character.
RECURSIVE RightOutsideQuotesFrom(_, _, _, _, _)
RightOutsideQuotesFrom(dl, s, i, inQ, last) ==
    IF i > Len(s) \/ s[i] = NL THEN FALSE
    ELSE LET c == s[i]
             esc == FirstRune(dl.EscapeCharacter)
         IN  IF c = FirstRune(dl.EntryQuote)
             THEN RightOutsideQuotesFrom(dl, s, i + 1,
                      IF esc # NoRune /\ last = esc THEN inQ ELSE ~inQ, c)
             ELSE IF c = FirstRune(dl.RightConstraint) /\ ~inQ THEN TRUE
             ELSE RightOutsideQuotesFrom(dl, s, i + 1, inQ, c)

\* C27: when the line ends, at a newline or at the end of the input, before
\* a right delimiter outside quotes (the right delimiter is missing or a
\* quote is left open), Decode returns a non-nil error and nil items, never
\* the entries decoded so far.
C27_UnterminatedListFails ==
    (DecodedFromStart /\ setup(d) = NoErr
        /\ ~RightOutsideQuotesFrom(d, lineStr, 1, FALSE, NoRune))
    => (dret.err # NoErr /\ dret.items = <<>>)

C27_Witness ==
    /\ DecodedFromStart /\ d = baseDL
    /\ lineStr = <<"[", DQ, "a", DQ>>
    /\ dret.err = DecodeErr(6) /\ dret.items = <<>>
    /\ l.index = Len(l.items)

\* Decode has just returned a nil error.
DecodeSucceeded == lstate = "ready" /\ dret.called /\ dret.err = NoErr

\* The number of items line.New makes of the written list of the line alone,
\* without what follows it on the line.
ListItemCount ==
    Len(newLoop(WriteList(baseDL, form.q, form.entries, form.sp, form.trail),
                1, <<>>, <<>>, FALSE, FALSE))

\* C28: when Decode succeeds the Lexer stands right after the right
\* delimiter: the last item read is the item that ends in the right
\* delimiter, for a written list at the start of the line exactly the items
\* of the list have been read, and the next Lexer.Next() returns the item
\* that directly follows.
C28_CursorAfterRightDelimiter ==
    /\ [](DecodeSucceeded
            => /\ l.index > dret.from /\ l.index < Len(l.items)
               /\ LET val == l.items[l.index].Val
                  IN  val # <<>> /\ val[Len(val)] = FirstRune(d.RightConstraint)
               /\ (form.kind = "list" /\ form.pre = <<>> /\ dret.from = 0)
                  => l.index = ListItemCount)
    /\ [][(DecodeSucceeded /\ LexerNext) => lret' = l.items[l.index + 1]]_vars

C28_Witness ==
    /\ DecodeSucceeded /\ dret.from = 0 /\ form.kind = "list"
    /\ form.suf = <<SP, "a">> /\ form.sp = Spots
    /\ dret.items = <<<<"a">>, <<"a">>>>
    /\ l.index = ListItemCount /\ l.items[l.index + 1] = LineItem(ItemSpace, <<SP>>)

\* The DecodeList has an empty LeftConstraint, an empty RightConstraint, a
\* Separator that is not exactly one character or is a space character, or
\* an EntryQuote that is neither the double nor the single quote.
Misconfigured(dl) ==
    \/ dl.LeftConstraint = <<>>
    \/ dl.RightConstraint = <<>>
    \/ Len(dl.Separator) # 1
    \/ \E i \in 1..Len(dl.Separator) : IsSpace(dl.Separator[i])
    \/ dl.EntryQuote \notin {<<DQ>>, <<SQ>>}

\* C29: Decode on a misconfigured DecodeList returns an error and nil items
\* and reads no item of the Lexer: Index() is what it was before the call.
C29_MisconfiguredFailsUnread ==
    (lstate = "ready" /\ dret.called /\ Misconfigured(d))
    => (dret.err # NoErr /\ dret.items = <<>> /\ l.index = dret.from)

C29_Witness ==
    /\ lstate = "ready" /\ dret.called /\ d.Separator = <<SP>>
    /\ dret.err = DecodeErr(4) /\ dret.items = <<>>
    /\ dret.from = 2 /\ l.index = 2 /\ Len(l.items) > 4

\* The positions of the terminal items, ItemEOL and ItemEOF, of the Lexer.
TerminalItems == {i \in 1..Len(l.items) : l.items[i].Type \in {ItemEOL, ItemEOF}}

\* C30: for every line, the empty line and lines with a newline in their
\* middle included, line.New returns a Lexer whose items hold exactly one
\* terminal item, the last one: an ItemEOL if the line holds a newline, an
\* ItemEOF otherwise.
C30_OneTerminalItemLast ==
    lstate # "new"
    => /\ lstate = "ready"
       /\ TerminalItems = {Len(l.items)}
       /\ l.items[Len(l.items)].Type
            = IF \E i \in 1..Len(lineStr) : lineStr[i] = NL
              THEN ItemEOL ELSE ItemEOF

\* The type the text of an item calls for: an optional leading '-' and one
\* or more digits is an Integer; an optional leading '-' and digits with a
\* single '.' between two of them is a Float; anything else is Text.
RefType(val) ==
    LET body == IF val # <<>> /\ val[1] = "-" THEN Tail(val) ELSE val
        dots == {i \in 1..Len(body) : body[i] = "."}
    IN  IF AllDigits(body) THEN ItemInt
        ELSE IF /\ \A i \in 1..Len(body) : body[i] \in Digits \cup {"."}
                /\ Cardinality(dots) = 1
                /\ 1 \notin dots /\ Len(body) \notin dots
        THEN ItemFloat
        ELSE ItemText

\* C31: every item line.New makes of a run of non-space characters has the
\* type its text calls for, Integer, Float or Text, wherever the run stands
\* in the line.
C31_TypeFollowsText ==
    lstate = "ready"
    => \A i \in 1..Len(l.items) :
          l.items[i].Type \in {ItemText, ItemInt, ItemFloat}
          => l.items[i].Type = RefType(l.items[i].Val)

\* The Val of the Space items, in order.
SpaceVals == [i \in 1..Len(SelectSeq(l.items, LAMBDA it : it.Type = ItemSpace))
                |-> SelectSeq(l.items, LAMBDA it : it.Type = ItemSpace)[i].Val]

\* The whitespace characters of the line other than the newline, in order,
\* each as a string of one character.
SpaceChars == [i \in 1..Len(SelectSeq(lineStr, LAMBDA c : IsSpace(c) /\ c # NL))
                |-> <<SelectSeq(lineStr, LAMBDA c : IsSpace(c) /\ c # NL)[i]>>]

\* C35: for every non-empty line, the Val of the items of line.New(line),
\* joined in order, are the line, and every whitespace character other than
\* the newline is a Space item of its own whose Val is that character: the
\* Space items are those characters in order, and no other item holds one.
C35_ItemsJoinToLine ==
    (lstate # "new" /\ lineStr # <<>>)
    => /\ lstate = "ready"
       /\ ItemJoin(l.items) = lineStr
       /\ SpaceVals = SpaceChars
       /\ \A i \in 1..Len(l.items) :
              l.items[i].Type \notin {ItemSpace, ItemEOL}
              => \A k \in 1..Len(l.items[i].Val) : ~IsSpace(l.items[i].Val[k])

C35_Witness ==
    /\ lstate = "ready" /\ lineStr = <<"a", "\t", SP, "1">>
    /\ Len(l.items) = 5 /\ l.items[2] = LineItem(ItemSpace, <<"\t">>)
    /\ ItemJoin(l.items) = lineStr

\* C32: Lexer.Peek returns the item Next would return and leaves Index()
\* unchanged in every state, the states with an EndOfLine item at the cursor
\* and with the EndOfInput item already read included.
C32_PeekKeepsIndex ==
    [][LexerPeek => (lret' = lexerNext(l).item /\ l'.index = l.index)]_vars

\* C33: when the Range goroutine leaves on the cancelled context, the cursor
\* stands at the first item that was not delivered: the next Next() returns
\* the item the goroutine held when it left, so that no item is skipped and
\* none is returned again, also when the item held is the EndOfLine item.
C33_CancelLeavesCursorAtUndelivered ==
    [][rangeCtxDone => (rng'.state = "closed" /\ NextAt(l') = rng.at)]_vars

\* The position of the first terminal item at or after position a.
RECURSIVE FirstTerminalFrom(_, _)
FirstTerminalFrom(items, a) ==
    IF a >= Len(items) \/ items[a].Type \in {ItemEOL, ItemEOF} THEN a
    ELSE FirstTerminalFrom(items, a + 1)

\* What a reader of Range is due when Index() was from: the items from the
\* one at the cursor up to the first terminal item; once the EndOfInput item
\* has been read, that item again, as Next() returns it.
RangeDue(items, from) ==
    LET a == IF from < Len(items) THEN from + 1 ELSE Len(items)
    IN  SubSeq(items, a, FirstTerminalFrom(items, a))

C36_SkipAllSpacesLeavesNoSpace ==
    [][SkipAllSpaces => lexerNext(l').item.Type # ItemSpace]_vars

\* C38, for one step of a FindUntil(f, u) call: when the first examined Line
\* that matches f or u or is the end-of-input Line matches both f and u, the
\* call returns that Line with untilFound = false and no error, and the
\* cursor stays just past that Line: it is not backed up.
FindUntilPrecedenceOK(f, u) ==
    \A b \in FirstExamined..Len(lines') :
        ( /\ \A k \in FirstExamined..(b - 1) :
                 /\ ~IsAtStart(lines'[k], f) /\ ~IsAtStart(lines'[k], u)
                 /\ ~EOF(lines'[k])
          /\ IsAtStart(lines'[b], u) /\ IsAtStart(lines'[b], f) )
        => /\ cstate' = "idle"
           /\ ret' = Ret("FindUntil", "ok", lines'[b])
           /\ pos' = IF AtEOF THEN pos ELSE b

C38_FindBeforeUntil ==
    [][/\ CallStarts("FindUntil") =>
              \A f \in Finds, u \in Untils :
                  FindUntilOf(f, u) => FindUntilPrecedenceOK(f, u)
       /\ CallResumes("FindUntil") => FindUntilPrecedenceOK(op.find, op.until)]_vars

C38_Witness ==
    /\ cstate = "idle" /\ ret.op = "FindUntil" /\ ret.st = "ok"
    /\ pos = 2 /\ Len(lines) >= 2 /\ ret.line = lines[2] /\ ~EOF(lines[2])
    /\ \A u \in Untils : IsAtStart(lines[2], u)

\* The end-of-input Line has been appended to the buffer.
EOFBuffered == \E k \in 1..Len(lines) : lines[k].Items # <<>> /\ EOF(lines[k])

\* C39: once the end-of-input Line is buffered, no Next, Backup, Peek or Find
\* call waits in pull() on the item channel; no buffered Line and no returned
\* Line has an empty item list, and no call panics in EOF(line) on an empty
\* item list (the only panic is that of Backup() at cursor 0).
C39_NoReceiveAfterEOF ==
    /\ EOFBuffered => (cstate # "pull" /\ cur = ZeroLine /\ queue = <<>>)
    /\ \A k \in 1..Len(lines) : lines[k].Items # <<>>
    /\ ret.st = "ok" => ret.line.Items # <<>>
    /\ (cstate = "panic" \/ ret.st = "panic") => ret.op = "Backup"

C39_Witness ==
    /\ EOFBuffered /\ cstate = "idle" /\ Len(lines) >= 3 /\ pos < Len(lines)
    /\ ret.op = "FindStart" /\ ret.st = "ok"

\* The Lines of input s: what the tokenizer emits for s, cut after each
\* terminal item.
LinesOf(s) == CutFrom(UntilSpace(s), <<>>)

\* C37: Reset(s) leaves an empty buffer and cursor 0; after it every Line a
\* Next() call returns is a Line of s, and a Next() call that waits for a
\* Line gets one.
C37_ResetStartsOver ==
    /\ [][Reset => (lines' = <<>> /\ pos' = 0)]_vars
    /\ []((~running /\ cstate = "idle" /\ ret.op = "Next") =>
            \E k \in 1..Len(LinesOf(input)) : ret.line = LinesOf(input)[k])
    /\ [](cstate = "pull" => <>(cstate # "pull"))

\* C40: when the tokenizer has emitted the EndOfInput item, its scan position
\* is the length of the input, so that every character of the input has
\* been scanned, for inputs that hold the character U+0001 too.
C40_EOFOnlyAtEndOfInput ==
    (Emitted # <<>> /\ Emitted[Len(Emitted)].Type = ItemEOF) =>
        scanEnd(input, 0) = Len(input)

====
